---------------------------- MODULE Spec2Model ----------------------------
(***************************************************************************)
(* Paraxial ray tracing: the OpticalSystem class of raytracing.py and the  *)
(* configuration wizard of gui.py.                                         *)
(*                                                                         *)
(* Numbers.  The program computes in floating point.  The model computes   *)
(* in exact integers on a fixed-point grid on which every operation of the *)
(* program is exact:                                                       *)
(*   - axial quantities (distance, position, current_z) are whole cm;      *)
(*   - heights and diameters are whole micro-cm (1e-6 cm);                 *)
(*   - slopes w are whole micro-units (1e-6), powers are whole 1/cm, so    *)
(*     y + d*w and w - P*y stay on the grid;                               *)
(*   - angles of the marginal-ray search are whole multiples of the        *)
(*     angular step 0.01 degree.                                           *)
(* On whole numbers the program's comparison abs(a - b) < 1e-10 is a = b,  *)
(* and abs(y) > diameter/2 is 2*abs(y) > diameter.                         *)
(***************************************************************************)
EXTENDS Integers, Sequences, FiniteSets, TLC

VARIABLES
    matrices,           \* OpticalSystem.matrices: the transfer-op sequence
    optical_elements,   \* OpticalSystem.optical_elements: the element registry
    object_height,      \* OpticalSystem.object_height: <<>> is None, <<h>> is h
    STOP_optic,         \* OpticalSystem.STOP_optic: <<>> is None, <<e>> is element e
    call,               \* the most recent call on the system and its arguments
    ret,                \* what that call returned / raised
    fm,                 \* the frame of a running find_marginal_rays
    screen,             \* OpticalSystemGUI: the form on display ("none": no GUI)
    gui_object_height,  \* OpticalSystemGUI.object_height
    conditions,         \* OpticalSystemGUI.conditions
    current_position    \* OpticalSystemGUI.current_position

sysvars == <<matrices, optical_elements, object_height, STOP_optic>>
guivars == <<screen, gui_object_height, conditions, current_position>>
vars == <<matrices, optical_elements, object_height, STOP_optic, call, ret, fm,
          screen, gui_object_height, conditions, current_position>>

---------------------------------------------------------------------------
(* Bounds of the model *)

\* at most this many ops in OpticalSystem.matrices
MaxOps == 2
\* at most this many elements in OpticalSystem.optical_elements
MaxElems == 2
\* the marginal-ray loop is followed up to this many angular steps
MaxAngle == 5

\* arguments the callers are drawn from
Distances == {-1, 0, 1}
Positions == {1, 2}
Diameters == {348, 1048}
Powers == {1}
Slopes == {-174, 524}
Heights == {0, 350}
ObjectHeights == {350}

None == <<>>

---------------------------------------------------------------------------
(* Values *)

Abs(x) == IF x < 0 THEN -x ELSE x

\* mutant: the transfer matrix transposed
TransferOp_Transposed(distance) ==
    [type |-> "transfer", matrix |-> << <<1, 0>>, <<distance, 1>> >>, distance |-> distance]

\* ('transfer', [[1, distance], [0, 1]], distance)
TransferOp(distance) ==
    [type |-> "transfer", matrix |-> << <<1, distance>>, <<0, 1>> >>, distance |-> distance]

\* ('refraction', [[1, 0], [-power, 1]], 0)
RefractionOp(power) ==
    [type |-> "refraction", matrix |-> << <<1, 0>>, <<-power, 1>> >>, distance |-> 0]

\* ('lens' | 'iris', position, diameter)
Element(type, position, diameter) ==
    [type |-> type, pos |-> position, diameter |-> diameter]

\* matrix @ ray, ray = [y, w]
MatMul(matrix, ray) ==
    << matrix[1][1] * ray[1] + matrix[1][2] * ray[2],
       matrix[2][1] * ray[1] + matrix[2][2] * ray[2] >>

\* abs(a - b) < 1e-10 on whole numbers
Close(a, b) == a = b

\* abs(a - b) > 1e-10 on whole numbers
Far(a, b) == a # b

\* mutant: the boundary ray is blocked too
Blocks_AtBoundary(elems, current_z, y) ==
    \E j \in 1..Len(elems) :
        Close(elems[j].pos, current_z) /\ 2 * Abs(y) >= elems[j].diameter

\* the inner loop of trace_ray: some element at current_z is smaller than the ray
Blocks(elems, current_z, y) ==
    \E j \in 1..Len(elems) :
        Close(elems[j].pos, current_z) /\ 2 * Abs(y) > elems[j].diameter

RECURSIVE TraceFrom(_, _, _, _, _, _)
\* the loop of trace_ray from op i on; blocked tells which return was taken
TraceFrom(mats, elems, i, ray, current_z, path) ==
    IF i > Len(mats)
    THEN [path |-> path, blocked |-> FALSE]
    ELSE LET ray2 == MatMul(mats[i].matrix, ray)
             z2   == current_z + mats[i].distance
             y    == ray2[1]
             path2 == Append(path, <<z2, y>>)
         IN  IF Blocks(elems, z2, y)
             THEN [path |-> path2, blocked |-> TRUE]
             ELSE TraceFrom(mats, elems, i + 1, ray2, z2, path2)

\* mutant: the path starts on the axis whatever the launch height
Trace_StartOnAxis(mats, elems, w0, y0) ==
    TraceFrom(mats, elems, 1, <<y0, w0>>, 0, << <<0, 0>> >>)

\* OpticalSystem.trace_ray(w0, y0)
Trace(mats, elems, w0, y0) ==
    TraceFrom(mats, elems, 1, <<y0, w0>>, 0, << <<0, y0>> >>)

trace_ray_path(mats, elems, w0, y0) == Trace(mats, elems, w0, y0).path

---------------------------------------------------------------------------
\* nothing returned (a mutation call, or a call still running)
NoReturn == [kind |-> "none", value |-> << >>, blocked |-> FALSE]

\* no find_marginal_rays frame
FrameIdle == [pc |-> "idle", current_angle |-> 0, last_successful_path |-> None]

\* OpticalSystem.__init__
InitSystem ==
    /\ matrices = << >>
    /\ optical_elements = << >>
    /\ object_height = None
    /\ STOP_optic = None
    /\ call = [op |-> "__init__", args |-> << >>]
    /\ ret = NoReturn
    /\ fm = FrameIdle

\* a system constructed by a caller of raytracing.py, no GUI
Init ==
    /\ InitSystem
    /\ screen = "none"
    /\ gui_object_height = 0
    /\ conditions = << >>
    /\ current_position = 0

\* no call is running: the program is single-threaded, a call runs to its return
Idle == fm.pc # "loop"

\* self.matrices.append(('transfer', ...))
AppendTransfer(mats, distance) == Append(mats, TransferOp(distance))

\* self.matrices.append(('refraction', ...))
AppendRefraction(mats, power) == Append(mats, RefractionOp(power))

\* mutant: the new element is put in front of the registry
AppendElement_InFront(elems, type, position, diameter) ==
    << Element(type, position, diameter) >> \o elems

\* self.optical_elements.append((type, position, diameter))
AppendElement(elems, type, position, diameter) ==
    Append(elems, Element(type, position, diameter))

set_object_height(height) ==
    /\ Idle
    /\ object_height' = <<height>>
    /\ call' = [op |-> "set_object_height", args |-> << >>]
    /\ ret' = NoReturn
    /\ fm' = FrameIdle
    /\ UNCHANGED <<matrices, optical_elements, STOP_optic, guivars>>

add_transfer(distance) ==
    /\ Idle
    /\ Len(matrices) < MaxOps
    /\ matrices' = AppendTransfer(matrices, distance)
    /\ call' = [op |-> "add_transfer", args |-> << >>]
    /\ ret' = NoReturn
    /\ fm' = FrameIdle
    /\ UNCHANGED <<optical_elements, object_height, STOP_optic, guivars>>

add_refraction(position, power, diameter) ==
    /\ Idle
    /\ Len(matrices) < MaxOps
    /\ Len(optical_elements) < MaxElems
    /\ matrices' = AppendRefraction(matrices, power)
    /\ optical_elements' = AppendElement(optical_elements, "lens", position, diameter)
    /\ call' = [op |-> "add_refraction", args |-> << >>]
    /\ ret' = NoReturn
    /\ fm' = FrameIdle
    /\ UNCHANGED <<object_height, STOP_optic, guivars>>

add_iris(position, diameter) ==
    /\ Idle
    /\ Len(optical_elements) < MaxElems
    /\ optical_elements' = AppendElement(optical_elements, "iris", position, diameter)
    /\ call' = [op |-> "add_iris", args |-> << >>]
    /\ ret' = NoReturn
    /\ fm' = FrameIdle
    /\ UNCHANGED <<matrices, object_height, STOP_optic, guivars>>

trace_ray(w0, y0) ==
    /\ Idle
    /\ LET t == Trace(matrices, optical_elements, w0, y0)
       IN  ret' = [kind |-> "path", value |-> t.path, blocked |-> t.blocked]
    /\ call' = [op |-> "trace_ray", args |-> <<w0, y0>>]
    /\ fm' = FrameIdle
    /\ UNCHANGED <<sysvars, guivars>>

---------------------------------------------------------------------------
(* find_marginal_rays *)

\* angle_step = 0.01 degree, the unit of current_angle
angle_step == 1

\* 180 degrees in angular steps: the period of the tangent
HalfTurn == 18000

\* 1e6 * tan(k * 0.01 degree), rounded to the grid, for k = 1, 2, ...
TanTable == <<175, 349, 524, 698, 873, 1047, 1222, 1396, 1571, 1745, 1920, 2094>>

\* np.tan(deg_to_rad(angle)) for the angles the model evaluates it at: the first
\* steps above 0 degree and, by the tangent's period, the same steps above 180
tan_deg_to_rad(angle) ==
    LET r == angle % HalfTurn
    IN  CASE r = 0 -> 0
          [] r \in 1..Len(TanTable) -> TanTable[r]

RECURSIVE SumPositive(_, _)
\* sum(distance for _, _, distance in self.matrices if distance > 0), from op i on
SumPositive(mats, i) ==
    IF i > Len(mats) THEN 0
    ELSE (IF mats[i].distance > 0 THEN mats[i].distance ELSE 0) + SumPositive(mats, i + 1)

\* mutant: the sum leaves the first op out
total_distance_SkipFirst(mats) == SumPositive(mats, 2)

\* total_distance of find_marginal_rays and of find_convergence
total_distance(mats) == SumPositive(mats, 1)

\* the classification of one candidate's path: all_elements_passed
all_elements_passed(mats, path) ==
    /\ ~ (Len(path) < 2)
    /\ ~ Far(path[Len(path)][1], total_distance(mats))

\* mutant: the loop has no break, the last element at final_z stays
FirstElementAt_NoBreak(elems, final_z) ==
    LET at == {j \in 1..Len(elems) : Close(elems[j].pos, final_z)}
    IN  IF at = {} THEN None
        ELSE << elems[CHOOSE j \in at : \A k \in at : j >= k] >>

\* the for loop over optical_elements with its break: the first element at final_z
FirstElementAt(elems, final_z) ==
    LET at == {j \in 1..Len(elems) : Close(elems[j].pos, final_z)}
    IN  IF at = {} THEN None
        ELSE << elems[CHOOSE j \in at : \A k \in at : j <= k] >>

\* the marker after a candidate's path is classified
StopAfter(mats, elems, stop, path) ==
    IF Len(path) < 2 THEN stop
    ELSE IF ~ Far(path[Len(path)][1], total_distance(mats)) THEN stop
    ELSE IF FirstElementAt(elems, path[Len(path)][1]) = None THEN stop
    ELSE FirstElementAt(elems, path[Len(path)][1])

\* the path of the candidate the loop is at
CandidatePath == trace_ray_path(matrices, optical_elements, tan_deg_to_rad(fm.current_angle), 0)

\* mutant: the failing angle is returned with the last successful path
MarginalResult_FailingAngle(current_angle, last_successful_path) ==
    IF last_successful_path # None
    THEN << <<current_angle, last_successful_path[1]>> >>
    ELSE << >>

\* what the loop returns at its first failing candidate
MarginalResult(current_angle, last_successful_path) ==
    IF last_successful_path # None
    THEN << <<current_angle - angle_step, last_successful_path[1]>> >>
    ELSE << >>

\* the call, up to the loop's head
find_marginal_rays ==
    /\ Idle
    /\ fm' = [pc |-> "loop", current_angle |-> angle_step, last_successful_path |-> None]
    /\ call' = [op |-> "find_marginal_rays", args |-> << >>]
    /\ ret' = NoReturn
    /\ UNCHANGED <<sysvars, guivars>>

\* one iteration whose candidate passes
loop_passed ==
    /\ fm.pc = "loop"
    /\ fm.current_angle <= MaxAngle
    /\ all_elements_passed(matrices, CandidatePath)
    /\ fm' = [fm EXCEPT !.last_successful_path = <<CandidatePath>>,
                        !.current_angle = fm.current_angle + angle_step]
    /\ UNCHANGED <<sysvars, call, ret, guivars>>

\* the iteration whose candidate fails: the return
loop_failed ==
    /\ fm.pc = "loop"
    /\ fm.current_angle <= MaxAngle
    /\ ~ all_elements_passed(matrices, CandidatePath)
    /\ STOP_optic' = StopAfter(matrices, optical_elements, STOP_optic, CandidatePath)
    /\ ret' = [kind |-> "marginal",
               value |-> MarginalResult(fm.current_angle, fm.last_successful_path),
               blocked |-> FALSE]
    /\ fm' = [fm EXCEPT !.pc = "returned"]
    /\ UNCHANGED <<matrices, optical_elements, object_height, call, guivars>>

---------------------------------------------------------------------------
(* find_image_position *)

\* the ray lists callers pass
RayFans ==
    { << >>,
      << <<-174, 0>>, <<524, 0>>, <<-174, 350>>, <<524, 350>> >> }

RECURSIVE SelectRays(_, _, _)
\* [(w0, y0) for w0, y0 in rays if abs(y0 - at) < 1e-10], from ray i on
SelectRays(rays, at, i) ==
    IF i > Len(rays) THEN << >>
    ELSE (IF Close(rays[i][2], at) THEN << rays[i] >> ELSE << >>) \o SelectRays(rays, at, i + 1)

RECURSIVE RayPaths(_, _, _, _)
\* ray_paths of find_convergence: the traced paths of more than one sample
RayPaths(mats, elems, rays, i) ==
    IF i > Len(rays) THEN << >>
    ELSE LET path == trace_ray_path(mats, elems, rays[i][1], rays[i][2])
         IN  (IF Len(path) > 1 THEN << path >> ELSE << >>) \o RayPaths(mats, elems, rays, i + 1)

\* the number of sample planes: np.linspace(0, total_distance, 1000) on the
\* model's scale
NumSamples == 5

\* abs(z - distinct_points[-1][1]) > 1.0: the separation in cm
MinSeparation == 1

\* a float that is the quotient num / den of two grid integers, den >= 0;
\* den = 0 is what numpy's division by zero gives
Quot(num, den) == [num |-> num, den |-> den]

\* nan: 0.0 / 0.0 of numpy floats (a RuntimeWarning, no exception)
NaN == Quot(0, 0)

IsNaN(a) == a.den = 0

\* a < b of floats: False when either is nan
Less(a, b) == ~ IsNaN(a) /\ ~ IsNaN(b) /\ a.num * b.den < b.num * a.den

\* a == b of floats: False when either is nan
Eq(a, b) == ~ IsNaN(a) /\ ~ IsNaN(b) /\ a.num * b.den = b.num * a.den

\* a + b, a - b, a * b of floats: nan when either is nan
Plus(a, b) ==
    IF IsNaN(a) \/ IsNaN(b) THEN NaN
    ELSE Quot(a.num * b.den + b.num * a.den, a.den * b.den)

Minus(a, b) ==
    IF IsNaN(a) \/ IsNaN(b) THEN NaN
    ELSE Quot(a.num * b.den - b.num * a.den, a.den * b.den)

Times(a, b) ==
    IF IsNaN(a) \/ IsNaN(b) THEN NaN
    ELSE Quot(a.num * b.num, a.den * b.den)

\* z_positions[i] for i = 0 .. NumSamples - 1: the planes from 0 to
\* total_distance, both ends included, evenly spaced
z_positions(mats, i) == Quot(i * total_distance(mats), NumSamples - 1)

\* z1 <= z <= z2 for path positions z1, z2 and a sample plane z
Brackets(z1, z, z2) == z1 * z.den <= z.num /\ z.num <= z2 * z.den

\* t = (z - z1) / (z2 - z1); height = y1 + t * (y2 - y1). On a bracketing
\* segment with z2 = z1 the quotient is 0.0 / 0.0
Interpolate(z1, y1, z2, y2, z) ==
    LET t == Quot(z.num - z1 * z.den, (z2 - z1) * z.den)
    IN  Plus(Quot(y1, 1), Times(t, Quot(y2 - y1, 1)))

RECURSIVE HeightOn(_, _, _)
\* the loop over the segments of one path, from segment i on, up to its break:
\* << height >> on the first segment that brackets z, << >> when none does
HeightOn(path, z, i) ==
    IF i > Len(path) - 1 THEN << >>
    ELSE IF Brackets(path[i][1], z, path[i + 1][1])
         THEN << Interpolate(path[i][1], path[i][2], path[i + 1][1], path[i + 1][2], z) >>
         ELSE HeightOn(path, z, i + 1)

RECURSIVE HeightsAt(_, _, _)
\* heights at the plane z, over the paths from path k on
HeightsAt(ray_paths, z, k) ==
    IF k > Len(ray_paths) THEN << >>
    ELSE HeightOn(ray_paths[k], z, 1) \o HeightsAt(ray_paths, z, k + 1)

RECURSIVE PyMax(_, _, _)
\* max(heights): the running maximum is replaced by an item that is > it
PyMax(heights, i, best) ==
    IF i > Len(heights) THEN best
    ELSE PyMax(heights, i + 1, IF Less(best, heights[i]) THEN heights[i] ELSE best)

RECURSIVE PyMin(_, _, _)
\* min(heights): the running minimum is replaced by an item that is < it
PyMin(heights, i, best) ==
    IF i > Len(heights) THEN best
    ELSE PyMin(heights, i + 1, IF Less(heights[i], best) THEN heights[i] ELSE best)

RECURSIVE SumOf(_, _)
SumOf(heights, i) ==
    IF i > Len(heights) THEN Quot(0, 1) ELSE Plus(heights[i], SumOf(heights, i + 1))

\* np.mean(heights)
Mean(heights) ==
    LET total == SumOf(heights, 1)
    IN  IF IsNaN(total) THEN NaN ELSE Quot(total.num, total.den * Len(heights))

\* the tuple (spread, z, mean_height) of one plane
Sample(heights, z) ==
    [spread |-> Minus(PyMax(heights, 2, heights[1]), PyMin(heights, 2, heights[1])),
     z |-> z,
     mean_height |-> Mean(heights)]

RECURSIVE Spreads(_, _, _)
\* spreads before the sort: one tuple for each plane, from plane i on, at
\* which some path has a height
Spreads(mats, ray_paths, i) ==
    IF i > NumSamples - 1 THEN << >>
    ELSE LET z == z_positions(mats, i)
             heights == HeightsAt(ray_paths, z, 1)
         IN  (IF heights # << >> THEN << Sample(heights, z) >> ELSE << >>)
                 \o Spreads(mats, ray_paths, i + 1)

\* a < b of two tuples: decided by the first items that are not equal
TupleLess(a, b) ==
    IF ~ Eq(a.spread, b.spread) THEN Less(a.spread, b.spread)
    ELSE IF ~ Eq(a.z, b.z) THEN Less(a.z, b.z)
    ELSE IF ~ Eq(a.mean_height, b.mean_height) THEN Less(a.mean_height, b.mean_height)
    ELSE FALSE

RECURSIVE Insert(_, _)
\* x put into a sorted list behind every item it is not less than
Insert(sorted, x) ==
    IF sorted = << >> THEN << x >>
    ELSE IF TupleLess(x, sorted[Len(sorted)])
         THEN Append(Insert(SubSeq(sorted, 1, Len(sorted) - 1), x), sorted[Len(sorted)])
         ELSE Append(sorted, x)

RECURSIVE SortFrom(_, _, _)
\* spreads.sort(): a stable sort that only asks whether one tuple is < another
SortFrom(spreads, i, sorted) ==
    IF i > Len(spreads) THEN sorted
    ELSE SortFrom(spreads, i + 1, Insert(sorted, spreads[i]))

Sorted(spreads) == SortFrom(spreads, 1, << >>)

\* abs(z - other) > 1.0
Separated(z, other) ==
    ~ IsNaN(z) /\ ~ IsNaN(other)
    /\ Abs(z.num * other.den - other.num * z.den) > MinSeparation * z.den * other.den

RECURSIVE SecondDistinct(_, _)
\* the loop over spreads[1:], from item i on: the first item further than 1 cm
\* from distinct_points[0] is returned as (z, height); (None, None) at the end
SecondDistinct(spreads, i) ==
    IF i > Len(spreads) THEN << None, None >>
    ELSE IF Separated(spreads[i].z, spreads[1].z)
         THEN << << spreads[i].z >>, << spreads[i].mean_height >> >>
         ELSE SecondDistinct(spreads, i + 1)

\* find_convergence(rays_from_point)
find_convergence(mats, elems, rays_from_point) ==
    LET ray_paths == RayPaths(mats, elems, rays_from_point, 1)
        spreads == Spreads(mats, ray_paths, 0)
    IN  IF Len(ray_paths) < 2 THEN << None, None >>
        ELSE IF spreads = << >> THEN << None, None >>
        ELSE SecondDistinct(Sorted(spreads), 2)

\* toe_x, toe_y, head_x, head_y for a height that is set
ImagePosition(mats, elems, h, rays) ==
    LET toe == find_convergence(mats, elems, SelectRays(rays, 0, 1))
        head == find_convergence(mats, elems, SelectRays(rays, h, 1))
    IN  << toe[1], toe[2], head[1], head[2] >>

\* mutant: a height of None is taken for 0, no error
ImageResult_NoneIsZero(mats, elems, height, rays) ==
    LET h == IF height = None THEN 0 ELSE height[1]
    IN  [kind |-> "image", value |-> ImagePosition(mats, elems, h, rays), blocked |-> FALSE]

\* find_image_position: the error when the height is None, else the four values
\* of the two calls of find_convergence
ImageResult(mats, elems, height, rays) ==
    IF height = None
    THEN [kind |-> "ValueError", value |-> << >>, blocked |-> FALSE]
    ELSE [kind |-> "image",
          value |-> ImagePosition(mats, elems, height[1], rays),
          blocked |-> FALSE]

find_image_position(rays) ==
    /\ Idle
    /\ call' = [op |-> "find_image_position", args |-> rays]
    /\ ret' = ImageResult(matrices, optical_elements, object_height, rays)
    /\ fm' = FrameIdle
    /\ UNCHANGED <<sysvars, guivars>>

---------------------------------------------------------------------------
(* gui.py: OpticalSystemGUI *)

\* what the user types into an entry: <<>> is text float() rejects, <<x>> is
\* text float() reads as x
Invalid == << >>
HeightTexts == {Invalid, <<350>>}
DistanceTexts == {Invalid, <<0>>, <<1>>}
DiameterTexts == {Invalid, <<348>>, <<1048>>}
FocalTexts == {Invalid, <<0>>, <<1>>}

\* OpticalSystemGUI.__init__: a fresh system and the object-height form
InitGUI ==
    /\ InitSystem
    /\ screen = "height"
    /\ gui_object_height = 0
    /\ conditions = << >>
    /\ current_position = 0

\* messagebox.showerror after an exception of the given kind
ErrorDialog(kind) == [kind |-> kind, value |-> << >>, blocked |-> FALSE]

\* mutant: a zero focal length gives power 0 and no exception
PowerOf_ZeroIsFlat(focal_length) ==
    IF focal_length = 0 THEN <<0>> ELSE << 1 \div focal_length >>

\* power = 1.0 / focal_length: <<>> is ZeroDivisionError.  The focal lengths of
\* the model are 0 and 1, where the quotient is on the grid
PowerOf(focal_length) ==
    IF focal_length = 0 THEN None ELSE << 1 \div focal_length >>

\* next_step of show_object_height_input
next_step(text) ==
    /\ screen = "height"
    /\ call' = [op |-> "next_step", args |-> <<text>>]
    /\ fm' = FrameIdle
    /\ IF text = Invalid
       THEN /\ ret' = ErrorDialog("ValueError")
            /\ UNCHANGED <<sysvars, guivars>>
       ELSE /\ gui_object_height' = text[1]
            /\ object_height' = <<text[1]>>
            /\ screen' = "condition"
            /\ ret' = NoReturn
            /\ UNCHANGED <<matrices, optical_elements, STOP_optic, conditions,
                           current_position>>

\* add_condition of show_condition_input, ctype "Transfer"
add_condition_transfer(text) ==
    /\ screen = "condition"
    /\ call' = [op |-> "add_condition", args |-> <<"Transfer", text>>]
    /\ fm' = FrameIdle
    /\ IF text = Invalid
       THEN /\ ret' = ErrorDialog("ValueError")
            /\ UNCHANGED <<sysvars, guivars>>
       ELSE /\ Len(matrices) < MaxOps
            /\ matrices' = AppendTransfer(matrices, text[1])
            /\ current_position' = current_position + text[1]
            /\ conditions' = Append(conditions, [kind |-> "Transfer", at |-> text[1]])
            /\ ret' = NoReturn
            /\ UNCHANGED <<optical_elements, object_height, STOP_optic, screen,
                           gui_object_height>>

\* add_condition, ctype "Iris"
add_condition_iris(text) ==
    /\ screen = "condition"
    /\ call' = [op |-> "add_condition", args |-> <<"Iris", text>>]
    /\ fm' = FrameIdle
    /\ IF text = Invalid
       THEN /\ ret' = ErrorDialog("ValueError")
            /\ UNCHANGED <<sysvars, guivars>>
       ELSE /\ Len(optical_elements) < MaxElems
            /\ optical_elements' =
                   AppendElement(optical_elements, "iris", current_position, text[1])
            /\ conditions' = Append(conditions, [kind |-> "Iris", at |-> current_position])
            /\ ret' = NoReturn
            /\ UNCHANGED <<matrices, object_height, STOP_optic, screen,
                           gui_object_height, current_position>>

\* add_condition, ctype "Refraction": both entries are read, then the power is
\* computed, then the lens is added
add_condition_refraction(focal_text, diam_text) ==
    /\ screen = "condition"
    /\ call' = [op |-> "add_condition", args |-> <<"Refraction", focal_text, diam_text>>]
    /\ fm' = FrameIdle
    /\ IF focal_text = Invalid \/ diam_text = Invalid
       THEN /\ ret' = ErrorDialog("ValueError")
            /\ UNCHANGED <<sysvars, guivars>>
       ELSE IF PowerOf(focal_text[1]) = None
       THEN /\ ret' = ErrorDialog("ZeroDivisionError")
            /\ UNCHANGED <<sysvars, guivars>>
       ELSE /\ Len(matrices) < MaxOps
            /\ Len(optical_elements) < MaxElems
            /\ matrices' = AppendRefraction(matrices, PowerOf(focal_text[1])[1])
            /\ optical_elements' =
                   AppendElement(optical_elements, "lens", current_position, diam_text[1])
            /\ conditions' = Append(conditions, [kind |-> "Lens", at |-> current_position])
            /\ ret' = NoReturn
            /\ UNCHANGED <<object_height, STOP_optic, screen, gui_object_height,
                           current_position>>

\* start_tracing: the window closes and raytracing.main(self.system, ...) runs,
\* whose first call on the system is find_marginal_rays
start_tracing ==
    /\ screen = "condition"
    /\ screen' = "closed"
    /\ fm' = [pc |-> "loop", current_angle |-> angle_step, last_successful_path |-> None]
    /\ call' = [op |-> "find_marginal_rays", args |-> << >>]
    /\ ret' = NoReturn
    /\ UNCHANGED <<sysvars, gui_object_height, conditions, current_position>>

NextGUI ==
    \/ \E text \in HeightTexts : next_step(text)
    \/ \E text \in DistanceTexts : add_condition_transfer(text)
    \/ \E text \in DiameterTexts : add_condition_iris(text)
    \/ \E focal_text \in FocalTexts, diam_text \in DiameterTexts :
           add_condition_refraction(focal_text, diam_text)
    \/ start_tracing
    \/ loop_passed
    \/ loop_failed

SpecGUI == InitGUI /\ [][NextGUI]_vars

Next ==
    \/ \E h \in ObjectHeights : set_object_height(h)
    \/ \E d \in Distances : add_transfer(d)
    \/ \E p \in Positions, P \in Powers, D \in Diameters : add_refraction(p, P, D)
    \/ \E p \in Positions, D \in Diameters : add_iris(p, D)
    \/ \E w0 \in Slopes, y0 \in Heights : trace_ray(w0, y0)
    \/ find_marginal_rays
    \/ loop_passed
    \/ loop_failed
    \/ \E rays \in RayFans : find_image_position(rays)

Spec == Init /\ [][Next]_vars

---------------------------------------------------------------------------
(* The image finder on systems long enough for two planes more than 1 cm
   apart: the same construction calls, with lenses and irises also at the
   object plane (where the wizard puts a first lens), and find_image_position *)

ImageDistances == {0, 1, 2}

ImagePositions == {0, 2}

ImageHeights == {0, 350}

ImageFans ==
    RayFans \cup { << <<-174, 0>>, <<524, 0>>, <<524, 350>> >> }

NextImage ==
    \/ \E h \in ImageHeights : set_object_height(h)
    \/ \E d \in ImageDistances : add_transfer(d)
    \/ \E p \in ImagePositions, P \in Powers, D \in Diameters : add_refraction(p, P, D)
    \/ \E p \in ImagePositions, D \in Diameters : add_iris(p, D)
    \/ \E rays \in ImageFans : find_image_position(rays)

SpecImage == Init /\ [][NextImage]_vars

---------------------------------------------------------------------------
(* Properties *)

RECURSIVE CumDist(_, _)
\* the sum of the distances of the first i ops
CumDist(mats, i) == IF i = 0 THEN 0 ELSE CumDist(mats, i - 1) + mats[i].distance

\* every transfer distance is >= 0
NonNegative(mats) == \A i \in 1..Len(mats) : mats[i].distance >= 0

\* trace_ray has just returned ret.value for the launch (w0, y0) = call.args
TraceReturned == call.op = "trace_ray" /\ ret.kind = "path"

\* some element of the registry sits at the sample's position and is strictly
\* smaller than the ray there
TooSmallAt(sample) ==
    \E j \in 1..Len(optical_elements) :
        /\ optical_elements[j].pos = sample[1]
        /\ 2 * Abs(sample[2]) > optical_elements[j].diameter

\* some element sits at the sample's position with the ray exactly on its rim
OnRimAt(sample) ==
    \E j \in 1..Len(optical_elements) :
        /\ optical_elements[j].pos = sample[1]
        /\ 2 * Abs(sample[2]) = optical_elements[j].diameter

(* C1: trace_ray vignettes by strict inequality only.  At every sample after
   an op: if some element of the registry (any kind, any insertion order) has
   that position and |height| > diameter/2, the path ends at that sample; if no
   element at that position has |height| > diameter/2 (the rim |height| =
   diameter/2 included), the path goes on with the next op, if there is one. *)
C1_StrictVignetting ==
    TraceReturned =>
        LET path == ret.value
        IN  \A i \in 2..Len(path) :
                /\ TooSmallAt(path[i]) => Len(path) = i
                /\ ~ TooSmallAt(path[i]) => (Len(path) > i \/ i = Len(matrices) + 1)

\* a ray on the rim of one element went on to the next op and was cut by another
C1_Witness ==
    /\ TraceReturned
    /\ Len(ret.value) = 3
    /\ OnRimAt(ret.value[2])
    /\ ~ TooSmallAt(ret.value[2])
    /\ TooSmallAt(ret.value[3])

\* a ray strictly larger than an element was cut there, before the last op
C1_WitnessCut ==
    /\ TraceReturned
    /\ Len(ret.value) = 2
    /\ Len(matrices) = 2
    /\ TooSmallAt(ret.value[2])

(* C2: with all transfer distances >= 0, the final axial position of the path
   trace_ray returns equals the sum of all transfer distances if and only if
   the ray was not blocked. *)
C2_FinalPositionTellsBlocking ==
    (TraceReturned /\ NonNegative(matrices)) =>
        ( ret.value[Len(ret.value)][1] = CumDist(matrices, Len(matrices))
          <=> ~ ret.blocked )

(* C3: the path trace_ray returns is non-empty, starts at (0, y0), holds one
   further sample per op applied (length 1 + k, k <= number of ops, and
   k < number of ops only when the ray was blocked at sample k), and sample i
   is at the sum of the distances of the first i ops. *)
C3_PathShape ==
    TraceReturned =>
        LET path == ret.value
            k    == Len(path) - 1
        IN  /\ Len(path) >= 1
            /\ path[1] = <<0, call.args[2]>>
            /\ k <= Len(matrices)
            /\ k < Len(matrices) => (k >= 1 /\ ret.blocked /\ TooSmallAt(path[k + 1]))
            /\ \A i \in 0..k : path[i + 1][1] = CumDist(matrices, i)

\* a launch off the axis was cut before the last op
C3_Witness ==
    /\ TraceReturned
    /\ call.args[2] # 0
    /\ Len(matrices) = 2
    /\ Len(ret.value) = 2

(* C9: on one transfer d >= 0 and no elements, trace_ray(w0, y0) returns
   exactly [(0, y0), (d, y0 + w0*d)]; on two transfers d1, d2 >= 0 the final
   (position, height) of a ray not vignetted in between is that of the single
   transfer d1 + d2. *)
C9_TransferComposes ==
    TraceReturned =>
        LET w0 == call.args[1]
            y0 == call.args[2]
        IN  /\ ( /\ Len(matrices) = 1
                 /\ matrices[1].type = "transfer"
                 /\ matrices[1].distance >= 0
                 /\ optical_elements = << >> )
               => ret.value = << <<0, y0>>,
                                 <<matrices[1].distance, y0 + w0 * matrices[1].distance>> >>
            /\ ( /\ Len(matrices) = 2
                 /\ matrices[1].type = "transfer" /\ matrices[1].distance >= 0
                 /\ matrices[2].type = "transfer" /\ matrices[2].distance >= 0
                 /\ Len(ret.value) = 3 )
               => LET d == matrices[1].distance + matrices[2].distance
                      one == trace_ray_path(<<TransferOp(d)>>, optical_elements, w0, y0)
                  IN  /\ ret.value[3] = <<d, y0 + w0 * d>>
                      /\ ret.value[3] = one[Len(one)]

\* two transfers of positive length were traced through, with an element between
C9_Witness ==
    /\ TraceReturned
    /\ Len(matrices) = 2
    /\ matrices[1].type = "transfer" /\ matrices[1].distance > 0
    /\ matrices[2].type = "transfer" /\ matrices[2].distance > 0
    /\ Len(ret.value) = 3
    /\ \E j \in 1..Len(optical_elements) : optical_elements[j].pos = matrices[1].distance

\* the height-0 ray at `angle` steps is tracing-successful: its path's final
\* position is the total transfer length
Passes(angle) ==
    LET path == trace_ray_path(matrices, optical_elements, tan_deg_to_rad(angle), 0)
    IN  Len(path) >= 2 /\ path[Len(path)][1] = total_distance(matrices)

\* find_marginal_rays has returned ret.value
MarginalReturned == call.op = "find_marginal_rays" /\ fm.pc = "returned"

\* the multiples of the angular step at which the model evaluates the tangent
Candidates ==
    (1..Len(TanTable)) \cup {HalfTurn + j : j \in 1..Len(TanTable)}

\* the result is empty exactly when the first candidate fails, else one entry:
\* the candidate just before the first failing one, with its own full path
MarginalEntry ==
    LET res == ret.value
    IN  /\ Len(res) \in {0, 1}
        /\ Len(res) = 0 <=> ~ Passes(angle_step)
        /\ Len(res) = 1 =>
               LET angle == res[1][1]
                   path  == res[1][2]
               IN  /\ angle >= angle_step
                   /\ \A j \in 1..angle : Passes(j)
                   /\ ~ Passes(angle + angle_step)
                   /\ path = trace_ray_path(matrices, optical_elements,
                                            tan_deg_to_rad(angle), 0)
                   /\ path[Len(path)][1] = total_distance(matrices)

(* C4, as stated: whenever find_marginal_rays returns, the result has zero or
   one entries, is empty exactly when the first candidate fails, and otherwise
   pairs the largest multiple of the angular step whose height-0 ray is
   tracing-successful with that ray's path, which ends at the total length. *)
C4_LargestSuccessfulMultiple ==
    MarginalReturned =>
        /\ MarginalEntry
        /\ Len(ret.value) = 1 =>
               \A j \in Candidates : Passes(j) => j <= ret.value[1][1]

(* C4, amended: whenever find_marginal_rays returns, the result has zero or
   one entries, is empty exactly when the first candidate fails, and otherwise
   pairs the candidate just before the first failing one (the largest multiple
   of the angular step up to which every multiple is tracing-successful) with
   that ray's own path, which ends at the total transfer length. *)
C4_LastBeforeFirstFailing == MarginalReturned => MarginalEntry

\* a search returned an angle of more than one step
C4_Witness ==
    /\ MarginalReturned
    /\ Len(ret.value) = 1
    /\ ret.value[1][1] > angle_step

\* no element of the registry sits at a position where the ray is sampled
NoAperture ==
    \A j \in 1..Len(optical_elements) : \A i \in 1..Len(matrices) :
        optical_elements[j].pos # CumDist(matrices, i)

\* a step of the search loop
LoopStep == fm.pc = "loop" /\ fm' # fm

\* the angle only steps upward, and the return is at the first failing candidate
SearchSteps ==
    /\ (LoopStep /\ fm'.pc = "loop") =>
           /\ fm'.current_angle = fm.current_angle + angle_step
           /\ Passes(fm.current_angle)
    /\ (LoopStep /\ fm'.pc # "loop") =>
           /\ fm'.pc = "returned"
           /\ fm'.current_angle = fm.current_angle
           /\ ~ Passes(fm.current_angle)
           /\ \A j \in 1..(fm.current_angle - 1) : Passes(j)

(* C5, as stated: on every system with no element that can block a ray,
   find_marginal_rays never returns. *)
C5_NeverReturnsWithoutAperture ==
    (call.op = "find_marginal_rays" /\ NoAperture) => fm.pc # "returned"

(* C5, amended: find_marginal_rays steps its candidate angle strictly upward
   and returns only on the first candidate classified as failing; on every
   system with at least one op, all transfer distances >= 0 and no element
   that can block a ray, it never returns. *)
C5_UnboundedSearch ==
    /\ [][SearchSteps]_vars
    /\ [](( /\ call.op = "find_marginal_rays"
            /\ NoAperture
            /\ Len(matrices) >= 1
            /\ NonNegative(matrices) ) => fm.pc # "returned")

\* on a system with ops and elements, none of which can block, the search has
\* passed every candidate the model follows
C5_Witness ==
    /\ call.op = "find_marginal_rays"
    /\ NoAperture
    /\ Len(matrices) >= 1 /\ NonNegative(matrices)
    /\ optical_elements # << >>
    /\ fm.pc = "loop"
    /\ fm.current_angle = MaxAngle + angle_step

\* element j is the first of the registry at position z
FirstAt(j, z) ==
    /\ j \in 1..Len(optical_elements)
    /\ optical_elements[j].pos = z
    /\ \A i \in 1..(j - 1) : optical_elements[i].pos # z

\* the step is the return of a search whose failing candidate was cut short
CutShortReturn ==
    /\ fm.pc = "loop" /\ fm'.pc = "returned"
    /\ Trace(matrices, optical_elements, tan_deg_to_rad(fm.current_angle), 0).blocked
    /\ CandidatePath[Len(CandidatePath)][1] # total_distance(matrices)

(* C10: when a candidate of find_marginal_rays fails because its path stops
   short of the total transfer length, the stop marker becomes (kind, position,
   diameter) of the first element, in insertion order, at the path's
   truncation position; no other step writes the marker (a step that changes it
   is the return of a search, and sets it to that first element). *)
C10_StopMarker ==
    [][ /\ CutShortReturn =>
               \E j \in 1..Len(optical_elements) :
                   /\ FirstAt(j, CandidatePath[Len(CandidatePath)][1])
                   /\ STOP_optic' = << optical_elements[j] >>
        /\ STOP_optic' # STOP_optic =>
               /\ fm.pc = "loop" /\ fm'.pc = "returned"
               /\ CandidatePath[Len(CandidatePath)][1] # total_distance(matrices)
               /\ \E j \in 1..Len(optical_elements) :
                      /\ FirstAt(j, CandidatePath[Len(CandidatePath)][1])
                      /\ STOP_optic' = << optical_elements[j] >>
      ]_vars

\* the marker names the first element at the truncation position, not the
\* smaller one behind it that cut the ray, and a later trace_ray left it so
C10_Witness ==
    /\ call.op = "trace_ray"
    /\ Len(optical_elements) = 2
    /\ optical_elements[1].pos = optical_elements[2].pos
    /\ optical_elements[1].diameter > optical_elements[2].diameter
    /\ STOP_optic = << optical_elements[1] >>

\* s is t with one item appended
OneAppended(s, t) == Len(t) = Len(s) + 1 /\ SubSeq(t, 1, Len(s)) = s

\* s is a prefix of t
IsPrefix(s, t) == Len(s) <= Len(t) /\ SubSeq(t, 1, Len(s)) = s

(* C6: find_image_position called while the object height has never been set
   ends in the error (ValueError), traces no ray and leaves the op sequence,
   the registry and the stop marker unchanged; set_object_height sets the
   height, nothing unsets it, and with a height set the call never ends in that
   error. *)
C6_HeightRequired ==
    [][ /\ (call'.op = "find_image_position" /\ object_height = None) =>
               /\ ret'.kind = "ValueError"
               /\ ret'.value = << >>
               /\ UNCHANGED <<matrices, optical_elements, STOP_optic, object_height>>
        /\ (call'.op = "find_image_position" /\ object_height # None) =>
               /\ ret'.kind = "image"
               /\ UNCHANGED <<matrices, optical_elements, STOP_optic, object_height>>
        /\ call'.op = "set_object_height" => object_height' # None
        /\ object_height # None => object_height' # None
      ]_vars

\* the query was made with rays on a system with ops and no height, and failed
C6_Witness ==
    /\ call.op = "find_image_position"
    /\ call.args # << >>
    /\ matrices # << >>
    /\ object_height = None
    /\ ret.kind = "ValueError"

(* C7: a lens requested in the wizard with focal length exactly zero ends in
   an error before any refraction matrix is made: no op and no element is
   appended, and the op sequence, the registry and the condition list are as
   before the request. *)
C7_ZeroFocalRejected ==
    [][ ( /\ call'.op = "add_condition"
          /\ call'.args[1] = "Refraction"
          /\ call'.args[2] = <<0>> ) =>
            /\ ret'.kind \in {"ZeroDivisionError", "ValueError"}
            /\ UNCHANGED <<matrices, optical_elements, conditions, current_position>>
      ]_vars

\* a zero focal length with a valid diameter was refused on a system that
\* already holds a lens
C7_Witness ==
    /\ call.op = "add_condition"
    /\ call.args[1] = "Refraction"
    /\ call.args[2] = <<0>>
    /\ call.args[3] # Invalid
    /\ ret.kind = "ZeroDivisionError"
    /\ \E i \in 1..Len(matrices) : matrices[i].type = "refraction"

(* C8: the system is append-only.  add_transfer appends exactly one op and
   leaves the registry alone; add_iris appends exactly one element and leaves
   the ops alone; add_refraction appends exactly one zero-distance op and
   exactly one lens element; set_object_height changes only the object height;
   no step removes, reorders or alters an op or element already present. *)
C8_AppendOnly ==
    [][ /\ call'.op = "add_transfer" =>
               /\ OneAppended(matrices, matrices')
               /\ matrices'[Len(matrices')].type = "transfer"
               /\ UNCHANGED <<optical_elements, object_height, STOP_optic>>
        /\ call'.op = "add_iris" =>
               /\ OneAppended(optical_elements, optical_elements')
               /\ optical_elements'[Len(optical_elements')].type = "iris"
               /\ UNCHANGED <<matrices, object_height, STOP_optic>>
        /\ call'.op = "add_refraction" =>
               /\ OneAppended(matrices, matrices')
               /\ matrices'[Len(matrices')].type = "refraction"
               /\ matrices'[Len(matrices')].distance = 0
               /\ OneAppended(optical_elements, optical_elements')
               /\ optical_elements'[Len(optical_elements')].type = "lens"
               /\ UNCHANGED <<object_height, STOP_optic>>
        /\ call'.op = "set_object_height" =>
               UNCHANGED <<matrices, optical_elements, STOP_optic>>
        /\ IsPrefix(matrices, matrices')
        /\ IsPrefix(optical_elements, optical_elements')
      ]_vars

\* a second, different element was appended after a search had set the stop
\* marker to the first
C8_Witness ==
    /\ call.op = "add_iris"
    /\ Len(matrices) = 2
    /\ Len(optical_elements) = 2
    /\ optical_elements[1] # optical_elements[2]
    /\ STOP_optic = << optical_elements[1] >>

(* find_image_position has returned its four values *)
ImageReturned == call.op = "find_image_position" /\ ret.kind = "image"

\* ray_paths of the group launched at the height at
GroupPaths(at) ==
    RayPaths(matrices, optical_elements, SelectRays(call.args, at, 1), 1)

\* the samples (spread, z, mean height) of a group
GroupSamples(at) ==
    LET spreads == Spreads(matrices, GroupPaths(at), 0)
    IN  {spreads[j] : j \in 1..Len(spreads)}

HasSpread(s) == ~ IsNaN(s.spread)

\* a is not behind b in the order of ascending spread, equal spreads by z
NotAfter(a, b) ==
    \/ a = b
    \/ Less(a.spread, b.spread)
    \/ Eq(a.spread, b.spread) /\ ~ Less(b.z, a.z)

MinSpreadSamples(S) ==
    {m \in S : HasSpread(m) /\ \A s \in S : HasSpread(s) => NotAfter(m, s)}

\* the samples more than 1 cm from the minimum-spread sample
SecondSamples(S) ==
    {s \in S : HasSpread(s) /\ \E m \in MinSpreadSamples(S) : Separated(s.z, m.z)}

\* what the group is to report
SecondCandidate(at) ==
    LET S == GroupSamples(at)
        F == SecondSamples(S)
    IN  IF Len(GroupPaths(at)) < 2 \/ F = {}
        THEN << None, None >>
        ELSE LET c == CHOOSE s \in F : \A s2 \in F : NotAfter(s, s2)
             IN  << << c.z >>, << c.mean_height >> >>

(* C11: for the base group (launch height 0) and the tip group (launch height
   H) find_image_position reports (z, mean height) of the first sample, in the
   order of ascending spread, whose z is more than 1 cm from the z of the
   minimum-spread sample; both values are absent exactly when the group has
   fewer than two multi-point paths or there is no such sample; each group's
   values depend on that group's rays alone. *)
C11_SecondDistinctCandidate ==
    ImageReturned =>
        ret.value = SecondCandidate(0) \o SecondCandidate(object_height[1])

\* the segments of a path that bracket the plane z
BracketingSegments(path, z) ==
    {i \in 1..(Len(path) - 1) : Brackets(path[i][1], z, path[i + 1][1])}

\* the segment the interpolation is done on: the first that brackets z
FirstBracketing(path, z) ==
    CHOOSE i \in BracketingSegments(path, z) :
        \A j \in BracketingSegments(path, z) : i <= j

\* in the search over a group, every interpolation is on a segment with z2 > z1
PositiveLengthOnly(at) ==
    LET ray_paths == GroupPaths(at)
    IN  Len(ray_paths) >= 2 =>
            \A k \in 1..Len(ray_paths), i \in 0..(NumSamples - 1) :
                LET path == ray_paths[k]
                    z == z_positions(matrices, i)
                IN  BracketingSegments(path, z) # {} =>
                        path[FirstBracketing(path, z) + 1][1] > path[FirstBracketing(path, z)][1]

(* C12: in the convergence search of find_image_position, for every traced
   path and every sample plane z from 0 to the total transfer length, the
   first segment with z1 <= z <= z2 has z2 > z1, so the interpolation never
   divides by zero. *)
C12_NoZeroLengthInterpolation ==
    ImageReturned => PositiveLengthOnly(0) /\ PositiveLengthOnly(object_height[1])

\* C11 on the calls whose samples all have a spread
C11_WhenNoDivisionByZero ==
    (ImageReturned /\ C12_NoZeroLengthInterpolation) => C11_SecondDistinctCandidate

===========================================================================
